---------------------------- MODULE Spec2Model ----------------------------
(***************************************************************************)
(* A model of django-microapi: the ModelSerializer (field introspection,   *)
(* to_dict, from_dict), the ApiView wrapper (dispatch, read_json, render,  *)
(* render_error) and the two BlogPost views of the test application.       *)
(*                                                                         *)
(* Python values are tagged records ([py |-> "str", s |-> ...], ...), an   *)
(* exception is a record of its class and message, and the outcome of a    *)
(* call is either Return(value) or Raise(exception).                       *)
(***************************************************************************)
EXTENDS Integers, Sequences, FiniteSets, TLC

VARIABLES store, call, result, target

vars == <<store, call, result, target>>

(***************************************************************************)
(* Bounds of the explored inputs.                                          *)
(***************************************************************************)
MaxFields == 2
MaxExclude == 2
MaxData == 2
MaxMsgs == 1
MaxObjs == 2

(***************************************************************************)
(* Python values.                                                          *)
(***************************************************************************)
None == [py |-> "NoneType"]
Str(s) == [py |-> "str", s |-> s]
PyInt(n) == [py |-> "int", n |-> n]
PyBool(b) == [py |-> "bool", b |-> b]
DateTime(ts) == [py |-> "datetime", ts |-> ts]
Bytes(text) == [py |-> "bytes", text |-> text]
List(items) == [py |-> "list", items |-> items]
Tuple(items) == [py |-> "tuple", items |-> items]
Dict(keys, map) == [py |-> "dict", keys |-> keys, map |-> map]
EmptyDict == Dict(<<>>, <<>>)

Return(v) == [raised |-> FALSE, value |-> v]
Raise(cls, msg) == [raised |-> TRUE, exc |-> [cls |-> cls, msg |-> msg]]

\* d[k] = v on a dict that keeps insertion order.
DictSet(d, k, v) ==
    IF \E i \in 1..Len(d.keys) : d.keys[i] = k
    THEN Dict(d.keys, [x \in DOMAIN d.map |-> IF x = k THEN v ELSE d.map[x]])
    ELSE Dict(Append(d.keys, k),
              [x \in (DOMAIN d.map) \cup {k} |-> IF x = k THEN v ELSE d.map[x]])

\* d.pop(k, None): the key is dropped when present, nothing happens otherwise.
DictPop(d, k) ==
    LET keep == SelectSeq(d.keys, LAMBDA x : x # k)
    IN Dict(keep, [x \in (DOMAIN d.map) \ {k} |-> d.map[x]])

SeqToSet(s) == {s[i] : i \in 1..Len(s)}

(***************************************************************************)
(* Ordering of str: Python compares strings code point by code point.      *)
(***************************************************************************)
CodePoints(name) ==
    CASE name = "content" -> <<99, 111, 110, 116, 101, 110, 116>>
      [] name = "id" -> <<105, 100>>
      [] name = "lmao" -> <<108, 109, 97, 111>>
      [] name = "published_by_id" ->
            <<112, 117, 98, 108, 105, 115, 104, 101, 100, 95, 98, 121, 95, 105, 100>>
      [] name = "published_on" ->
            <<112, 117, 98, 108, 105, 115, 104, 101, 100, 95, 111, 110>>
      [] name = "slug" -> <<115, 108, 117, 103>>
      [] name = "title" -> <<116, 105, 116, 108, 101>>

RECURSIVE SeqLess(_, _)
SeqLess(a, b) ==
    IF a = <<>> THEN b # <<>>
    ELSE IF b = <<>> THEN FALSE
    ELSE IF Head(a) # Head(b) THEN Head(a) < Head(b)
    ELSE SeqLess(Tail(a), Tail(b))

StrLess(a, b) == SeqLess(CodePoints(a), CodePoints(b))

\* sorted(names) for a set of str.
RECURSIVE sorted(_)
sorted(names) ==
    IF names = {} THEN <<>>
    ELSE LET least == CHOOSE n \in names : \A m \in names \ {n} : StrLess(n, m)
         IN <<least>> \o sorted(names \ {least})

(***************************************************************************)
(* Model metadata: _meta.fields is a sequence of field descriptors.        *)
(* column is None for a virtual field, generated is the GeneratedField     *)
(* flag, related says the field is an instance of RelatedField.            *)
(***************************************************************************)
Field(attname, column, generated, related) ==
    [attname |-> attname, column |-> column, generated |-> generated,
     related |-> related]

PlainField(name) == Field(name, Str(name), FALSE, FALSE)
RelatedFieldOf(name) == Field(name, Str(name), FALSE, TRUE)
GeneratedFieldOf(name) == Field(name, Str(name), TRUE, FALSE)
VirtualFieldOf(name) == Field(name, None, FALSE, FALSE)

\* The filter without its RelatedField test.
IsExceptionalKeepingRelated(field) ==
    \/ field.column = None
    \/ field.generated

\* The filter of the loop over _meta.fields.
IsExceptional(field) ==
    \/ field.column = None
    \/ field.generated
    \/ field.related

collect_field_names(model) ==
    LET fields == model.meta
        field_names == {fields[i].attname :
                           i \in {j \in 1..Len(fields) : ~IsExceptional(fields[j])}}
    IN sorted(field_names)

\* The loop over exclude giving up at the first name the dict does not hold.
RECURSIVE PopAllUntilMissing(_, _)
PopAllUntilMissing(data, exclude) ==
    IF exclude = <<>> THEN data
    ELSE IF Head(exclude) \notin SeqToSet(data.keys) THEN data
    ELSE PopAllUntilMissing(DictPop(data, Head(exclude)), Tail(exclude))

RECURSIVE PopAll(_, _)
PopAll(data, exclude) ==
    IF exclude = <<>> THEN data
    ELSE PopAll(DictPop(data, Head(exclude)), Tail(exclude))

RECURSIVE ReadFields(_, _, _)
ReadFields(model, field_list, data) ==
    IF field_list = <<>> THEN data
    ELSE ReadFields(model, Tail(field_list),
                    DictSet(data, Head(field_list), model.attrs[Head(field_list)]))

\* to_dict without the pass over exclude.
to_dict_ignoring_exclude(model, exclude) ==
    ReadFields(model, collect_field_names(model), EmptyDict)

to_dict(model, exclude) ==
    LET excl == IF exclude = None THEN <<>> ELSE exclude.items
        field_list == collect_field_names(model)
        data == ReadFields(model, field_list, EmptyDict)
    IN PopAll(data, excl)


(***************************************************************************)
(* Attribute lookup on the built-in types the library touches (Python 3):  *)
(* a dict has items() but no iteritems(), bytes has no read().             *)
(***************************************************************************)
HasAttribute(value, name) ==
    CASE value.py = "dict" ->
            name \in {"items", "keys", "values", "get", "pop", "update"}
      [] value.py = "bytes" -> name \in {"decode", "split", "strip"}
      [] OTHER -> FALSE

NoAttribute(value, name) ==
    Raise("AttributeError",
          "'" \o value.py \o "' object has no attribute '" \o name \o "'")

\* The body of the loop of from_dict for one key/value pair: the strict
\* check, then setattr called with two arguments, which Python rejects.
FromDictStep(model, key, value, strict, field_list) ==
    IF strict /\ key \notin SeqToSet(field_list)
    THEN Raise("InvalidFieldError",
               key \o " not found on " \o model.cls)
    ELSE Raise("TypeError", "setattr expected 3 arguments, got 2")

RECURSIVE FromDictLoop(_, _, _, _, _)
FromDictLoop(model, data, keys, strict, field_list) ==
    IF keys = <<>> THEN [outcome |-> Return(model.ref), model |-> model]
    ELSE LET step == FromDictStep(model, Head(keys), data.map[Head(keys)],
                                  strict, field_list)
         IN IF step.raised THEN [outcome |-> step, model |-> model]
            ELSE FromDictLoop(step.value, data, Tail(keys), strict, field_list)

\* from_dict: the outcome of the call and the object as the call leaves it.
from_dict(model, data, strict) ==
    LET field_list == collect_field_names(model)
    IN IF ~HasAttribute(data, "iteritems")
       THEN [outcome |-> NoAttribute(data, "iteritems"), model |-> model]
       ELSE FromDictLoop(model, data, data.keys, strict, field_list)

(***************************************************************************)
(* HTTP status vocabulary of microapi.http.                                *)
(***************************************************************************)
OK == 200
CREATED == 201
ACCEPTED == 202
NO_CONTENT == 204
APP_ERROR == 500

\* The marker of an argument left to its default.
Omitted == [py |-> "omitted"]

(***************************************************************************)
(* JSON text, as the tree json.dumps writes (DjangoJSONEncoder): list and  *)
(* tuple both become arrays, a datetime its ISO string.                    *)
(***************************************************************************)
IsoFormat(ts) ==
    CASE ts = 1 -> "2023-11-28T09:26:54.123Z"
      [] ts = 2 -> "2023-12-05T10:03:22.123Z"

RECURSIVE JsonEncode(_)
JsonEncode(v) ==
    CASE v.py = "str" -> [json |-> "string", s |-> v.s]
      [] v.py = "int" -> [json |-> "number", n |-> v.n]
      [] v.py = "bool" -> [json |-> IF v.b THEN "true" ELSE "false"]
      [] v.py = "NoneType" -> [json |-> "null"]
      [] v.py = "datetime" -> [json |-> "string", s |-> IsoFormat(v.ts)]
      [] v.py \in {"list", "tuple"} ->
            [json |-> "array",
             items |-> [i \in 1..Len(v.items) |-> JsonEncode(v.items[i])]]
      [] v.py = "dict" ->
            [json |-> "object", keys |-> v.keys,
             map |-> [k \in DOMAIN v.map |-> JsonEncode(v.map[k])]]

\* JsonResponse(data, status=status_code).
JsonResponse(data, status) ==
    [status_code |-> status, content_type |-> "application/json",
     content |-> JsonEncode(data)]

\* status_code is Omitted or an int.
render(data, status_code) ==
    JsonResponse(data, IF status_code = Omitted THEN OK ELSE status_code.n)

\* render_error wrapping whatever it is given.
render_error_wrapping(msgs, status_code) ==
    render(Dict(<<"success", "errors">>,
                [success |-> PyBool(FALSE), errors |-> List(<<msgs>>)]),
           IF status_code = Omitted THEN PyInt(APP_ERROR) ELSE status_code)

render_error(msgs, status_code) ==
    LET listed == IF msgs.py \notin {"list", "tuple"} THEN List(<<msgs>>) ELSE msgs
    IN render(Dict(<<"success", "errors">>,
                   [success |-> PyBool(FALSE), errors |-> listed]),
              IF status_code = Omitted THEN PyInt(APP_ERROR) ELSE status_code)

(***************************************************************************)
(* Requests: the declared content type (None when the header is absent),   *)
(* the body (bytes) and the id the URL carries.                            *)
(***************************************************************************)
\* request.headers.get("Content-type", "")
HeaderGet(request, default) ==
    IF request.content_type = None THEN default ELSE request.content_type

\* json.loads on the bodies the model sends.
json_loads(text) ==
    CASE text = "{}" -> Return(EmptyDict)
      [] text = "{\"content\": \"a\"}" ->
            Return(Dict(<<"content">>, [content |-> Str("a")]))
      [] text = "{\"lmao\": \"a\"}" ->
            Return(Dict(<<"lmao">>, [lmao |-> Str("a")]))
      [] text = "{\"title\": \"Cat Pictures\", \"content\": \"a\"}" ->
            Return(Dict(<<"title", "content">>,
                        [title |-> Str("Cat Pictures"), content |-> Str("a")]))
      [] OTHER -> Raise("ValueError", "Expecting value: line 1 column 1 (char 0)")

\* read_json checking the content type whatever strict says.
read_json_checking_always(request, strict) ==
    IF HeaderGet(request, Str("")).s # "application/json"
    THEN Raise("ApiError", "Invalid Content-type provided.")
    ELSE NoAttribute(request.body, "read")

read_json(request, strict) ==
    LET valid_content_types == {"application/json"}
    IN IF strict /\ HeaderGet(request, Str("")).s \notin valid_content_types
       THEN Raise("ApiError", "Invalid Content-type provided.")
       ELSE IF ~HasAttribute(request.body, "read")
            THEN NoAttribute(request.body, "read")
            ELSE LET loaded == json_loads(request.body.text)
                 IN IF loaded.raised /\ loaded.exc.cls = "ValueError"
                    THEN Raise("ApiError", "Invalid JSON payload provided.")
                    ELSE loaded

serialize(obj) == to_dict(obj, None)

\* The loop of serialize_many: data.append(self.serialize(obj)).
RECURSIVE SerializeEach(_, _)
SerializeEach(objs, data) ==
    IF objs = <<>> THEN data
    ELSE SerializeEach(Tail(objs), Append(data, serialize(Head(objs))))

\* serialize_many putting each serialized object in front of the others.
RECURSIVE SerializeEachInFront(_, _)
SerializeEachInFront(objs, data) ==
    IF objs = <<>> THEN data
    ELSE SerializeEachInFront(Tail(objs), <<serialize(Head(objs))>> \o data)

serialize_many_in_front(objs) == List(SerializeEachInFront(objs, <<>>))

serialize_many(objs) == List(SerializeEach(objs, <<>>))


(***************************************************************************)
(* The test application: the BlogPost model, its table and the two views.  *)
(***************************************************************************)
BlogPostMeta ==
    <<PlainField("id"), PlainField("title"), PlainField("slug"),
      PlainField("content"), RelatedFieldOf("published_by_id"),
      PlainField("published_on")>>

\* An instance: ref is the identity of the Python object.
Instance(cls, ref, meta, attrs) ==
    [cls |-> cls, ref |-> ref, meta |-> meta, attrs |-> attrs]

\* BlogPost(): the field defaults of an unsaved instance.
NewBlogPost(now) ==
    Instance("BlogPost", 0, BlogPostMeta,
             [id |-> None, title |-> Str(""), slug |-> Str(""),
              content |-> Str(""), published_by_id |-> None,
              published_on |-> DateTime(now)])

\* The rows the view tests start from.
Fixture ==
    (1 :> [id |-> PyInt(1), title |-> Str("Hello, World!"),
           slug |-> Str("hello-world"),
           content |-> Str("My first post!"),
           published_by_id |-> PyInt(1), published_on |-> DateTime(1)])
    @@
    (2 :> [id |-> PyInt(2), title |-> Str("Life Update"),
           slug |-> Str("life-update"),
           content |-> Str("So, it's been awhile..."),
           published_by_id |-> PyInt(1), published_on |-> DateTime(2)])

Loaded(rows, pk) == Instance("BlogPost", pk, BlogPostMeta, rows[pk])

\* BlogPost.objects.get(pk=post_id)
get_blog_post(rows, post_id) ==
    IF post_id \in DOMAIN rows THEN Return(Loaded(rows, post_id))
    ELSE Raise("DoesNotExist", "BlogPost matching query does not exist.")

\* BlogPost.objects.all().order_by("-published_on")
RECURSIVE OrderByPublishedOnDesc(_, _)
OrderByPublishedOnDesc(rows, pks) ==
    IF pks = {} THEN <<>>
    ELSE LET first == CHOOSE p \in pks : \A q \in pks \ {p} :
                          rows[p].published_on.ts > rows[q].published_on.ts
         IN <<Loaded(rows, first)>> \o OrderByPublishedOnDesc(rows, pks \ {first})

\* django.utils.text.slugify on the titles the model uses.
slugify(title) ==
    CASE title = "Hello, World!" -> "hello-world"
      [] title = "Life Update" -> "life-update"
      [] title = "Cat Pictures" -> "cat-pictures"
      [] OTHER -> ""

\* The key the table gives the next inserted row (two rows were inserted).
NextPk == 3

\* BlogPost.save(): fill an empty slug from the title, then write the row.
save(rows, post) ==
    LET slugged == IF post.attrs.slug = Str("")
                   THEN [post.attrs EXCEPT !.slug = Str(slugify(post.attrs.title.s))]
                   ELSE post.attrs
        pk == IF post.attrs.id = None THEN NextPk ELSE post.attrs.id.n
        row == [slugged EXCEPT !.id = PyInt(pk)]
    IN [rows |-> [q \in (DOMAIN rows) \cup {pk} |-> IF q = pk THEN row ELSE rows[q]],
        post |-> [post EXCEPT !.attrs = row, !.ref = pk]]

BlogPostListView == [name |-> "BlogPostListView", bubble_exceptions |-> TRUE]
BlogPostDetailView == [name |-> "BlogPostDetailView", bubble_exceptions |-> FALSE]

\* The attributes a view class defines besides its handlers: neither ApiView
\* nor the two views define "serializer".
ViewAttributes(view) == {"bubble_exceptions", "http_method_names"}

NoViewAttribute(view, name) ==
    Raise("AttributeError",
          "'" \o view.name \o "' object has no attribute '" \o name \o "'")

Handled(outcome, rows) == [outcome |-> outcome, store |-> rows]

list_get(view, request, rows) ==
    LET posts == OrderByPublishedOnDesc(rows, DOMAIN rows)
    IN Handled(Return(render(Dict(<<"success", "posts">>,
                                  [success |-> PyBool(TRUE),
                                   posts |-> serialize_many(posts)]),
                             Omitted)),
               rows)

list_post(view, request, rows) ==
    LET data == read_json(request, TRUE)
        new_post == NewBlogPost(2)
    IN IF data.raised THEN Handled(data, rows)
       ELSE IF "serializer" \notin ViewAttributes(view)
       THEN Handled(NoViewAttribute(view, "serializer"), rows)
       ELSE LET loaded == from_dict(new_post, data.value, FALSE)
            IN IF loaded.outcome.raised THEN Handled(loaded.outcome, rows)
               ELSE LET owned == [loaded.model EXCEPT
                                     !.attrs.published_by_id = request.user]
                        saved == save(rows, owned)
                    IN Handled(Return(render(Dict(<<"success", "post">>,
                                                  [success |-> PyBool(TRUE),
                                                   post |-> serialize(saved.post)]),
                                             PyInt(CREATED))),
                               saved.rows)

list_delete(view, request, rows) ==
    Handled(Raise("OhHellNoError", "I don't think so."), rows)

\* detail_get without its try/except around the lookup.
detail_get_uncaught(view, request, rows) ==
    LET post == get_blog_post(rows, request.post_id)
    IN IF post.raised THEN Handled(post, rows)
       ELSE Handled(Return(render(Dict(<<"success", "post">>,
                                       [success |-> PyBool(TRUE),
                                        post |-> serialize(post.value)]),
                                  Omitted)),
                    rows)

detail_get(view, request, rows) ==
    LET post == get_blog_post(rows, request.post_id)
    IN IF post.raised /\ post.exc.cls = "DoesNotExist"
       THEN Handled(Return(render_error(Str("Post does not exist"), Omitted)), rows)
       ELSE IF post.raised THEN Handled(post, rows)
       ELSE Handled(Return(render(Dict(<<"success", "post">>,
                                       [success |-> PyBool(TRUE),
                                        post |-> serialize(post.value)]),
                                  Omitted)),
                    rows)

detail_put(view, request, rows) ==
    LET data == read_json(request, TRUE)
        post == get_blog_post(rows, request.post_id)
    IN IF data.raised THEN Handled(data, rows)
       ELSE IF post.raised THEN Handled(post, rows)
       ELSE IF "serializer" \notin ViewAttributes(view)
       THEN Handled(NoViewAttribute(view, "serializer"), rows)
       ELSE LET loaded == from_dict(post.value, data.value, TRUE)
            IN IF loaded.outcome.raised THEN Handled(loaded.outcome, rows)
               ELSE LET saved == save(rows, loaded.model)
                    IN Handled(Return(render(Dict(<<"success", "post">>,
                                                  [success |-> PyBool(TRUE),
                                                   post |-> serialize(saved.post)]),
                                             PyInt(ACCEPTED))),
                               saved.rows)

\* detail_delete answering without the call of post.delete().
detail_delete_keeping_row(view, request, rows) ==
    LET post == get_blog_post(rows, request.post_id)
    IN IF post.raised THEN Handled(post, rows)
       ELSE Handled(Return(render(EmptyDict, PyInt(NO_CONTENT))), rows)

detail_delete(view, request, rows) ==
    LET post == get_blog_post(rows, request.post_id)
    IN IF post.raised THEN Handled(post, rows)
       ELSE Handled(Return(render(EmptyDict, PyInt(NO_CONTENT))),
                    [q \in (DOMAIN rows) \ {request.post_id} |-> rows[q]])

(***************************************************************************)
(* View.dispatch of the framework: the handler named by the lower-cased    *)
(* verb when the verb is in http_method_names and the class defines it,    *)
(* http_method_not_allowed (a 405 response) otherwise.                     *)
(***************************************************************************)
http_method_names == {"get", "post", "put", "patch", "delete"}

Lower(method) ==
    CASE method = "GET" -> "get"
      [] method = "POST" -> "post"
      [] method = "PUT" -> "put"
      [] method = "PATCH" -> "patch"
      [] method = "DELETE" -> "delete"
      [] method = "OPTIONS" -> "options"
      [] method \in {"get", "Get"} -> "get"
      [] method \in {"post", "Post"} -> "post"
      [] method \in {"put"} -> "put"
      [] method \in {"patch", "Patch", "pAtCh"} -> "patch"
      [] method \in {"delete"} -> "delete"
      [] method \in {"HEAD", "head"} -> "head"
      [] method \in {"options"} -> "options"
      [] method \in {"TRACE", "trace"} -> "trace"
      [] method \in {"BREW", "brew"} -> "brew"

http_method_not_allowed ==
    [status_code |-> 405, content_type |-> "text/html; charset=utf-8",
     content |-> [json |-> "empty"]]

ViewDispatch(view, request, rows) ==
    LET verb == Lower(request.method)
    IN CASE verb \notin http_method_names ->
                Handled(Return(http_method_not_allowed), rows)
         [] view = BlogPostListView /\ verb = "get" -> list_get(view, request, rows)
         [] view = BlogPostListView /\ verb = "post" -> list_post(view, request, rows)
         [] view = BlogPostListView /\ verb = "delete" ->
                list_delete(view, request, rows)
         [] view = BlogPostDetailView /\ verb = "get" ->
                detail_get(view, request, rows)
         [] view = BlogPostDetailView /\ verb = "put" ->
                detail_put(view, request, rows)
         [] view = BlogPostDetailView /\ verb = "delete" ->
                detail_delete(view, request, rows)
         [] OTHER -> Handled(Return(http_method_not_allowed), rows)

\* str(err) of an exception built from one message.
str(exc) == exc.msg

\* dispatch re-raising whatever bubble_exceptions says.
dispatch_reraising(view, request, rows) == ViewDispatch(view, request, rows)

\* dispatch converting whatever bubble_exceptions says.
dispatch_swallowing(view, request, rows) ==
    LET handled == ViewDispatch(view, request, rows)
    IN IF handled.outcome.raised
       THEN Handled(Return(render_error(Str(str(handled.outcome.exc)), Omitted)),
                    handled.store)
       ELSE handled

\* dispatch answering a caught exception through render, with the default
\* status and the bare message as the body.
dispatch_rendering_message(view, request, rows) ==
    LET handled == ViewDispatch(view, request, rows)
    IN IF handled.outcome.raised
       THEN IF view.bubble_exceptions THEN handled
            ELSE Handled(Return(render(Dict(<<"error">>,
                                            [error |-> Str(str(handled.outcome.exc))]),
                                       Omitted)),
                         handled.store)
       ELSE handled

\* ApiView.dispatch
dispatch(view, request, rows) ==
    LET handled == ViewDispatch(view, request, rows)
    IN IF handled.outcome.raised
       THEN IF view.bubble_exceptions THEN handled
            ELSE Handled(Return(render_error(Str(str(handled.outcome.exc)), Omitted)),
                         handled.store)
       ELSE handled


(***************************************************************************)
(* The test helpers of microapi.tests.                                     *)
(***************************************************************************)
\* The verbs create_request has a RequestFactory method for.
FactoryVerbs == {"get", "post", "put", "delete", "head", "options", "trace"}

\* The request a RequestFactory method builds.
BuiltRequest(verb, url, headers, data) ==
    [py |-> "WSGIRequest", verb |-> verb, path |-> url, headers |-> headers,
     data |-> data]

DefaultHeaders ==
    Dict(<<"Content-Type", "Accepts">>,
         [x \in {"Content-Type", "Accepts"} |-> Str("application/json")])

\* create_request comparing the method as it was given.
create_request_case_sensitive(url, method, headers, data) ==
    LET sent == IF headers = None THEN DefaultHeaders ELSE headers
    IN CASE method = "patch" ->
                Raise("ValueError", "Django's RequestFactory does not support PATCH.")
         [] method \in FactoryVerbs -> Return(BuiltRequest(method, url, sent, data))
         [] OTHER ->
                Raise("UnboundLocalError",
                      "cannot access local variable 'req_method'")

create_request(url, method, headers, data) ==
    LET sent == IF headers = None THEN DefaultHeaders ELSE headers
        verb == Lower(method)
    IN CASE verb = "patch" ->
                Raise("ValueError", "Django's RequestFactory does not support PATCH.")
         [] verb \in FactoryVerbs -> Return(BuiltRequest(verb, url, sent, data))
         [] OTHER ->
                Raise("UnboundLocalError",
                      "cannot access local variable 'req_method'")

\* json.loads on the text of a response body.
RECURSIVE JsonDecode(_)
JsonDecode(j) ==
    CASE j.json = "string" -> Str(j.s)
      [] j.json = "number" -> PyInt(j.n)
      [] j.json = "true" -> PyBool(TRUE)
      [] j.json = "false" -> PyBool(FALSE)
      [] j.json = "null" -> None
      [] j.json = "array" ->
            List([i \in 1..Len(j.items) |-> JsonDecode(j.items[i])])
      [] j.json = "object" ->
            Dict(j.keys, [k \in DOMAIN j.map |-> JsonDecode(j.map[k])])

\* The attributes of an HttpResponse: it has content, but no body.
ResponseAttributes == {"content", "headers", "status_code", "charset"}

\* "application/json" in resp.headers.get("Content-Type", "")
DeclaresJsonBody(resp) ==
    resp.content_type \in {"application/json", "application/json; charset=utf-8"}

check_response(resp) ==
    IF ~DeclaresJsonBody(resp) THEN Raise("AssertionError", "")
    ELSE IF "body" \notin ResponseAttributes
    THEN Raise("AttributeError", "'JsonResponse' object has no attribute 'body'")
    ELSE IF resp.content = [json |-> "empty"] THEN Return(EmptyDict)
    ELSE Return(JsonDecode(resp.content))

\* assertResponseEquals: the final assert compares data with itself.
assertResponseEquals(resp, data) ==
    LET resp_data == check_response(resp)
    IN IF resp_data.raised THEN resp_data
       ELSE IF data = data THEN Return(None)
       ELSE Raise("AssertionError", "")

(***************************************************************************)
(* The inputs the model explores.                                          *)
(***************************************************************************)
SeqsUpTo(S, n) == UNION {[1..k -> S] : k \in 0..n}

DistinctSeqsUpTo(S, n) ==
    {q \in SeqsUpTo(S, n) : \A i, j \in 1..Len(q) : q[i] = q[j] => i = j}

TypeNames == {"published_by_id", "published_on", "slug"}

Descriptors ==
    UNION {{PlainField(n), RelatedFieldOf(n), GeneratedFieldOf(n), VirtualFieldOf(n)} :
              n \in TypeNames}

\* _meta.fields of the explored model classes: a name stands for one field,
\* which may be listed more than once.
ModelTypes ==
    {f \in SeqsUpTo(Descriptors, MaxFields) :
        \A i, j \in 1..Len(f) : f[i].attname = f[j].attname => f[i] = f[j]}

AttNames(meta) == {meta[i].attname : i \in 1..Len(meta)}

FieldValues == {Str("a"), Str("b")}

ModelClasses ==
    {[cls |-> "T", meta |-> f] : f \in ModelTypes}
    \cup {[cls |-> "BlogPost", meta |-> BlogPostMeta]}

BlogPosts == {NewBlogPost(2), Loaded(Fixture, 1), Loaded(Fixture, 2)}

Objects ==
    UNION {{Instance("T", 0, f, attrs) : attrs \in [AttNames(f) -> FieldValues]} :
              f \in ModelTypes}
    \cup BlogPosts

ExcludeNames == {"lmao", "published_on", "slug"}

Excludes == {None} \cup {List(e) : e \in SeqsUpTo(ExcludeNames, MaxExclude)}

DataKeys == {"content", "lmao", "slug", "title"}

DataDicts ==
    UNION {{Dict(keys, map) : map \in [SeqToSet(keys) -> FieldValues]} :
              keys \in DistinctSeqsUpTo(DataKeys, MaxData)}

Messages == {"x", "y"}

Msgs ==
    {Str(m) : m \in Messages}
    \cup {List(q) : q \in SeqsUpTo({Str(m) : m \in Messages}, MaxMsgs)}
    \cup {Tuple(q) : q \in SeqsUpTo({Str(m) : m \in Messages}, MaxMsgs)}

StatusCodes == {Omitted, PyInt(400), PyInt(404)}

Methods == {"GET", "POST", "PUT", "PATCH", "DELETE", "OPTIONS"}

ContentTypes ==
    {None, Str("application/json"), Str("application/json; charset=utf-8"),
     Str("Application/JSON"), Str("text/plain")}

Bodies ==
    {Bytes("{}"), Bytes("{\"content\": \"a\"}"), Bytes("{\"lmao\": \"a\"}"),
     Bytes("{\"title\": \"Cat Pictures\", \"content\": \"a\"}"),
     Bytes("not json")}

PostIds == {1, 2, 3}

Request(method, content_type, body, post_id) ==
    [method |-> method, content_type |-> content_type, body |-> body,
     user |-> PyInt(1), post_id |-> post_id]

ListRequests ==
    {Request(m, c, b, None) : m \in Methods, c \in ContentTypes, b \in Bodies}

DetailRequests ==
    {Request(m, c, b, p) : m \in Methods, c \in ContentTypes, b \in Bodies,
                           p \in PostIds}

MethodSpellings ==
    {"GET", "get", "Post", "PUT", "delete", "head", "OPTIONS", "TRACE",
     "PATCH", "patch", "Patch", "pAtCh", "BREW"}

Urls == {"/api/v1/posts/", "/api/v1/posts/1/"}

HeaderChoices == {None, Dict(<<"Content-Type">>, [x \in {"Content-Type"} |-> Str("text/plain")])}

DataChoices == {None, Dict(<<"nope">>, [nope |-> Str("nopenope")])}

Responses ==
    {render_error(Str("x"), Omitted),
     render_error(Str("Post does not exist"), Omitted),
     render(EmptyDict, PyInt(NO_CONTENT)),
     render(Dict(<<"success">>, [success |-> PyBool(TRUE)]), Omitted),
     http_method_not_allowed}

ExpectedData ==
    {EmptyDict,
     Dict(<<"success">>, [success |-> PyBool(TRUE)]),
     Dict(<<"success", "errors">>,
          [success |-> PyBool(FALSE), errors |-> List(<<Str("x")>>)])}

ObjectLists == SeqsUpTo(BlogPosts, MaxObjs)

Pending == [state |-> "pending"]

Calls ==
    {[op |-> "collect_field_names", model |-> m] : m \in ModelClasses}
    \cup {[op |-> "to_dict", model |-> o, exclude |-> e] :
             o \in Objects, e \in Excludes}
    \cup {[op |-> "from_dict", model |-> o, data |-> d, strict |-> b] :
             o \in BlogPosts, d \in DataDicts, b \in BOOLEAN}
    \cup {[op |-> "render_error", msgs |-> m, status_code |-> c] :
             m \in Msgs, c \in StatusCodes}
    \cup {[op |-> "read_json", request |-> r, strict |-> b] :
             r \in ListRequests, b \in BOOLEAN}
    \cup {[op |-> "create_request", url |-> u, method |-> m, headers |-> h,
           data |-> d] :
             u \in Urls, m \in MethodSpellings, h \in HeaderChoices,
             d \in DataChoices}
    \cup {[op |-> "assertResponseEquals", resp |-> r, data |-> d] :
             r \in Responses, d \in ExpectedData}
    \cup {[op |-> "serialize_many", objs |-> q] : q \in ObjectLists}

(***************************************************************************)
(* The library calls, one at a time: the call is drawn with its arguments, *)
(* the action of its operation carries it out.                             *)
(***************************************************************************)
CallInit ==
    /\ store = Fixture
    /\ call \in Calls
    /\ result = Pending
    /\ target = IF call.op \in {"collect_field_names", "to_dict", "from_dict"}
                THEN call.model ELSE None

CollectFieldNames ==
    /\ result = Pending
    /\ call.op = "collect_field_names"
    /\ result' = Return(collect_field_names(call.model))
    /\ UNCHANGED <<store, call, target>>

ToDict ==
    /\ result = Pending
    /\ call.op = "to_dict"
    /\ result' = Return(to_dict(call.model, call.exclude))
    /\ UNCHANGED <<store, call, target>>

FromDict ==
    /\ result = Pending
    /\ call.op = "from_dict"
    /\ LET done == from_dict(call.model, call.data, call.strict)
       IN /\ result' = done.outcome
          /\ target' = done.model
    /\ UNCHANGED <<store, call>>

RenderError ==
    /\ result = Pending
    /\ call.op = "render_error"
    /\ result' = Return(render_error(call.msgs, call.status_code))
    /\ UNCHANGED <<store, call, target>>

ReadJson ==
    /\ result = Pending
    /\ call.op = "read_json"
    /\ result' = read_json(call.request, call.strict)
    /\ UNCHANGED <<store, call, target>>

CreateRequest ==
    /\ result = Pending
    /\ call.op = "create_request"
    /\ result' = create_request(call.url, call.method, call.headers, call.data)
    /\ UNCHANGED <<store, call, target>>

AssertResponseEquals ==
    /\ result = Pending
    /\ call.op = "assertResponseEquals"
    /\ result' = assertResponseEquals(call.resp, call.data)
    /\ UNCHANGED <<store, call, target>>

SerializeMany ==
    /\ result = Pending
    /\ call.op = "serialize_many"
    /\ result' = Return(serialize_many(call.objs))
    /\ UNCHANGED <<store, call, target>>

CallNext ==
    \/ CollectFieldNames
    \/ ToDict
    \/ FromDict
    \/ RenderError
    \/ ReadJson
    \/ CreateRequest
    \/ AssertResponseEquals
    \/ SerializeMany

CallSpec == CallInit /\ [][CallNext]_vars

(***************************************************************************)
(* The request/response cycle against the two URL routes.                  *)
(***************************************************************************)
Init ==
    /\ store = Fixture
    /\ call = [op |-> "none"]
    /\ result = Pending
    /\ target = None

DispatchList ==
    \E request \in ListRequests :
        LET served == dispatch(BlogPostListView, request, store)
        IN /\ call' = [op |-> "dispatch", view |-> BlogPostListView,
                       request |-> request, before |-> store]
           /\ result' = served.outcome
           /\ store' = served.store
           /\ UNCHANGED target

DispatchDetail ==
    \E request \in DetailRequests :
        LET served == dispatch(BlogPostDetailView, request, store)
        IN /\ call' = [op |-> "dispatch", view |-> BlogPostDetailView,
                       request |-> request, before |-> store]
           /\ result' = served.outcome
           /\ store' = served.store
           /\ UNCHANGED target

Next ==
    \/ DispatchList
    \/ DispatchDetail

Spec == Init /\ [][Next]_vars


(***************************************************************************)
(* Properties of the serializer (under CallSpec).                          *)
(***************************************************************************)
Finished(op) == call.op = op /\ result # Pending

\* A field that is stored in a column of its own and is not relational.
IsStoredScalar(field) ==
    field.column # None /\ ~field.generated /\ ~field.related

\* C1: collect_field_names returns an alphabetically sorted list without
\* duplicates that holds no name of a relational, generated or virtual field
\* and holds the name of every other field of the type.
CollectFieldNamesSortedEligible ==
    Finished("collect_field_names") =>
        LET names == result.value
            fields == call.model.meta
        IN /\ \A i, j \in 1..Len(names) : i < j => ~StrLess(names[j], names[i])
           /\ \A i, j \in 1..Len(names) : names[i] = names[j] => i = j
           /\ \A i \in 1..Len(names) : \A k \in 1..Len(fields) :
                 fields[k].attname = names[i] => IsStoredScalar(fields[k])
           /\ \A k \in 1..Len(fields) :
                 IsStoredScalar(fields[k]) =>
                    \E i \in 1..Len(names) : names[i] = fields[k].attname

CollectFieldNamesOnBlogPost ==
    /\ Finished("collect_field_names")
    /\ call.model.cls = "BlogPost"
    /\ \E k \in 1..Len(call.model.meta) : call.model.meta[k].related
    /\ result.value = <<"content", "id", "published_on", "slug", "title">>

\* C2: every key of to_dict(O, E) is an eligible field name outside E, the
\* keys come in the sorted eligible order filtered by E, and each key maps to
\* the value O holds for that field.
ToDictKeysOrderedAndCurrent ==
    Finished("to_dict") =>
        LET data == result.value
            eligible == collect_field_names(call.model)
            excluded == IF call.exclude = None THEN {}
                        ELSE SeqToSet(call.exclude.items)
        IN /\ \A i \in 1..Len(data.keys) :
                 data.keys[i] \in SeqToSet(eligible) /\ data.keys[i] \notin excluded
           /\ data.keys = SelectSeq(eligible, LAMBDA k : k \notin excluded)
           /\ DOMAIN data.map = SeqToSet(data.keys)
           /\ \A k \in DOMAIN data.map : data.map[k] = call.model.attrs[k]

ToDictWithExcludedField ==
    /\ Finished("to_dict")
    /\ call.model.cls = "BlogPost"
    /\ call.exclude = List(<<"slug">>)
    /\ result.value.keys = <<"content", "id", "published_on", "title">>
    /\ result.value.map.title = Str("Hello, World!")

AllKeysEligible ==
    SeqToSet(call.data.keys) \subseteq SeqToSet(collect_field_names(call.model))

\* C3: after from_dict(O, M, strict=False) on a freshly constructed O with a
\* mapping M of eligible keys, to_dict(O) holds M[k] under every key k of M.
FromDictRoundTrip ==
    (/\ Finished("from_dict")
     /\ ~call.strict
     /\ call.model = NewBlogPost(2)
     /\ AllKeysEligible) =>
        /\ ~result.raised
        /\ \A k \in SeqToSet(call.data.keys) :
              to_dict(target, None).map[k] = call.data.map[k]

\* C4: from_dict(O, M, strict=True) fails with InvalidFieldError exactly
\* when M has a key outside collect_field_names(O), and completes without
\* any error when every key of M is eligible.
StrictFromDictFailsIffInvalidKey ==
    (Finished("from_dict") /\ call.strict) =>
        /\ (result.raised /\ result.exc.cls = "InvalidFieldError")
              <=> ~AllKeysEligible
        /\ AllKeysEligible => ~result.raised

\* C5: a from_dict that has nothing to reject returns the object it was
\* given, with O.k = M[k] for every key k of M, every other field as it was,
\* and the table of stored records untouched.
FromDictReturnsSameObjectUnsaved ==
    (Finished("from_dict") /\ (~call.strict \/ AllKeysEligible)) =>
        /\ ~result.raised
        /\ result.value = call.model.ref
        /\ target.ref = call.model.ref
        /\ \A k \in SeqToSet(call.data.keys) :
              k \in DOMAIN target.attrs /\ target.attrs[k] = call.data.map[k]
        /\ \A f \in (DOMAIN call.model.attrs) \ SeqToSet(call.data.keys) :
              target.attrs[f] = call.model.attrs[f]
        /\ store = Fixture

(***************************************************************************)
(* Properties of the view wrapper.                                         *)
(***************************************************************************)
\* The JSON text {"success": false, "errors": [...]} for a list of messages.
ErrorEnvelope(messages) ==
    [json |-> "object", keys |-> <<"success", "errors">>,
     map |-> [success |-> [json |-> "false"],
              errors |-> [json |-> "array",
                          items |-> [i \in 1..Len(messages) |->
                                        [json |-> "string", s |-> messages[i]]]]]]

\* What the per-verb handler of the dispatched request did.
HandlerOutcome == ViewDispatch(call.view, call.request, call.before).outcome

\* C6: when the handler raises and bubble_exceptions is false, dispatch
\* raises nothing and returns a JSON response with status 500 whose body is
\* {success: false, errors: [str(exception)]}.
HandlerErrorBecomesEnvelope ==
    (call.op = "dispatch" /\ ~call.view.bubble_exceptions /\ HandlerOutcome.raised) =>
        /\ ~result.raised
        /\ result.value.status_code = 500
        /\ result.value.content_type = "application/json"
        /\ result.value.content = ErrorEnvelope(<<HandlerOutcome.exc.msg>>)

DeleteOfMissingPostEnveloped ==
    /\ call.op = "dispatch"
    /\ call.view = BlogPostDetailView
    /\ call.request.method = "DELETE"
    /\ HandlerOutcome.raised
    /\ HandlerOutcome.exc.cls = "DoesNotExist"
    /\ ~result.raised
    /\ result.value.status_code = 500

\* C7: when the handler raises and bubble_exceptions is true, dispatch
\* raises that same exception and returns no response; DELETE on the list
\* endpoint raises the handler's OhHellNoError.
BubbledExceptionIsReraised ==
    (call.op = "dispatch" /\ call.view.bubble_exceptions) =>
        /\ HandlerOutcome.raised => result = HandlerOutcome
        /\ (call.view = BlogPostListView /\ call.request.method = "DELETE") =>
              result = Raise("OhHellNoError", "I don't think so.")

ListDeleteBubbled ==
    /\ call.op = "dispatch"
    /\ call.view = BlogPostListView
    /\ call.request.method = "DELETE"
    /\ result.raised
    /\ result.exc.cls = "OhHellNoError"

\* C8: render_error of one message and of the one-element list of it give
\* the same body {success: false, errors: [message]}; every body has success
\* false and a list of errors; the status is 500 unless one is passed.
RenderErrorNormalizesMessages ==
    Finished("render_error") =>
        LET messages == IF call.msgs.py = "str" THEN <<call.msgs.s>>
                        ELSE [i \in 1..Len(call.msgs.items) |-> call.msgs.items[i].s]
        IN /\ result.value.content = ErrorEnvelope(messages)
           /\ result.value.content.map.success = [json |-> "false"]
           /\ result.value.content.map.errors.json = "array"
           /\ result.value.status_code =
                 IF call.status_code = Omitted THEN 500 ELSE call.status_code.n

RenderErrorOfOneElementList ==
    /\ Finished("render_error")
    /\ call.msgs = List(<<Str("x")>>)
    /\ call.status_code = Omitted
    /\ result.value.content = ErrorEnvelope(<<"x">>)
    /\ result.value.status_code = 500

InvalidContentType == Raise("ApiError", "Invalid Content-type provided.")

DeclaresJson == call.request.content_type = Str("application/json")

\* C9: a strict read_json fails with ApiError("Invalid Content-type
\* provided.") whenever the declared content type is not exactly
\* application/json (or is absent), and no read_json fails with that error
\* when the type is exactly application/json or strict is false.
ContentTypeCheckedWhenStrict ==
    Finished("read_json") =>
        /\ (call.strict /\ ~DeclaresJson) => result = InvalidContentType
        /\ (~call.strict \/ DeclaresJson) => result # InvalidContentType

StrictReadWithoutContentType ==
    /\ Finished("read_json")
    /\ call.strict
    /\ call.request.content_type = None
    /\ result = InvalidContentType

\* C10: past the content-type check read_json returns the decoded mapping
\* of a valid JSON body, fails with ApiError("Invalid JSON payload
\* provided.") on a body that does not parse, and lets no other error out.
ReadJsonDecodesOrRejects ==
    (Finished("read_json") /\ (~call.strict \/ DeclaresJson)) =>
        LET parsed == json_loads(call.request.body.text)
        IN /\ ~parsed.raised => result = parsed
           /\ parsed.raised =>
                 result = Raise("ApiError", "Invalid JSON payload provided.")
           /\ result.raised => result.exc.cls = "ApiError"


(***************************************************************************)
(* End-to-end properties of the two routes (under Spec).                   *)
(***************************************************************************)
Dispatched(view, method) ==
    /\ call.op = "dispatch"
    /\ call.view = view
    /\ call.request.method = method

CatPictures == Bytes("{\"title\": \"Cat Pictures\", \"content\": \"a\"}")

\* C11: a POST of a JSON mapping with a title and a content to the list
\* endpoint is answered with status 201, adds exactly one record, the body's
\* post.slug is the slugified title and the stored record's published_by is
\* the caller.
PostCreatesRecord ==
    (/\ Dispatched(BlogPostListView, "POST")
     /\ DeclaresJson
     /\ call.request.body = CatPictures) =>
        /\ ~result.raised
        /\ result.value.status_code = 201
        /\ Cardinality(DOMAIN store) = Cardinality(DOMAIN call.before) + 1
        /\ result.value.content.map.post.map.slug =
              [json |-> "string", s |-> "cat-pictures"]
        /\ \E pk \in (DOMAIN store) \ (DOMAIN call.before) :
              store[pk].published_by_id = call.request.user

\* C12: DELETE on the detail endpoint for an existing record is answered
\* with status 204, removes that record and no other from the table, and a
\* retrieval of the record afterwards fails as not existing.
DeleteRemovesExactlyThatRecord ==
    (/\ Dispatched(BlogPostDetailView, "DELETE")
     /\ call.request.post_id \in DOMAIN call.before) =>
        /\ ~result.raised
        /\ result.value.status_code = 204
        /\ DOMAIN store = (DOMAIN call.before) \ {call.request.post_id}
        /\ \A pk \in DOMAIN store : store[pk] = call.before[pk]
        /\ get_blog_post(store, call.request.post_id).raised
        /\ get_blog_post(store, call.request.post_id).exc.cls = "DoesNotExist"

DeletedFirstOfTwo ==
    /\ Dispatched(BlogPostDetailView, "DELETE")
    /\ call.request.post_id = 1
    /\ DOMAIN call.before = {1, 2}
    /\ DOMAIN store = {2}
    /\ result.value.status_code = 204

\* C13: GET on the detail endpoint for an id that is not in the table is
\* answered with the view's own body, errors = ["Post does not exist"], not
\* with the envelope dispatch makes of the DoesNotExist exception.
MissingPostGetsCustomBody ==
    (/\ Dispatched(BlogPostDetailView, "GET")
     /\ call.request.post_id \notin DOMAIN call.before) =>
        /\ ~result.raised
        /\ result.value.content = ErrorEnvelope(<<"Post does not exist">>)
        /\ result.value.content #
              ErrorEnvelope(<<"BlogPost matching query does not exist.">>)
        /\ store = call.before

GetOfMissingPost ==
    /\ Dispatched(BlogPostDetailView, "GET")
    /\ call.request.post_id = 3
    /\ ~result.raised
    /\ result.value.content.map.errors.items[1].s = "Post does not exist"

\* The decoded payload of the dispatched request has a key that is no
\* eligible field of BlogPost.
PayloadHasInvalidKey ==
    LET parsed == json_loads(call.request.body.text)
    IN /\ ~parsed.raised
       /\ \E k \in SeqToSet(parsed.value.keys) :
             k \notin SeqToSet(collect_field_names(NewBlogPost(2)))

\* C18: a PUT on the detail endpoint whose payload has a key outside the
\* eligible fields, or whose id is not in the table, is answered with a 500
\* JSON error envelope and leaves every stored record as it was.
RejectedPutChangesNothing ==
    (/\ Dispatched(BlogPostDetailView, "PUT")
     /\ (PayloadHasInvalidKey \/ call.request.post_id \notin DOMAIN call.before)) =>
        /\ ~result.raised
        /\ result.value.status_code = 500
        /\ result.value.content_type = "application/json"
        /\ result.value.content.json = "object"
        /\ result.value.content.keys = <<"success", "errors">>
        /\ result.value.content.map.success = [json |-> "false"]
        /\ result.value.content.map.errors.json = "array"
        /\ Len(result.value.content.map.errors.items) = 1
        /\ store = call.before

PutWithInvalidKey ==
    /\ Dispatched(BlogPostDetailView, "PUT")
    /\ DeclaresJson
    /\ call.request.body = Bytes("{\"lmao\": \"a\"}")
    /\ call.request.post_id = 1
    /\ result.value.status_code = 500
    /\ store = call.before


(***************************************************************************)
(* Properties of the test helpers and of the remaining serializer calls    *)
(* (under CallSpec).                                                       *)
(***************************************************************************)
PatchSpellings == {"PATCH", "patch", "Patch", "pAtCh"}

\* C14: create_request called with the method PATCH, in any letter case,
\* fails with a ValueError and builds no request.
PatchIsRefused ==
    (Finished("create_request") /\ call.method \in PatchSpellings) =>
        /\ result.raised
        /\ result.exc.cls = "ValueError"
        /\ result.exc.msg = "Django's RequestFactory does not support PATCH."

MixedCasePatchRefused ==
    /\ Finished("create_request")
    /\ call.method = "pAtCh"
    /\ result.raised
    /\ result.exc.cls = "ValueError"

\* C15: assertResponseEquals(resp, data) raises AssertionError whenever the
\* decoded JSON body of the response differs from data, and passes only when
\* the two are equal.
AssertResponseEqualsCompares ==
    Finished("assertResponseEquals") =>
        LET decoded == IF call.resp.content = [json |-> "empty"] THEN EmptyDict
                       ELSE JsonDecode(call.resp.content)
        IN /\ decoded # call.data =>
                 (result.raised /\ result.exc.cls = "AssertionError")
           /\ ~result.raised => decoded = call.data

\* C16: serialize_many(objs) returns a list as long as objs whose i-th
\* element is serialize(objs[i]) = to_dict(objs[i]).
SerializeManyKeepsOrder ==
    Finished("serialize_many") =>
        /\ result.value.py = "list"
        /\ Len(result.value.items) = Len(call.objs)
        /\ \A i \in 1..Len(call.objs) :
              /\ result.value.items[i] = to_dict(call.objs[i], None)
              /\ result.value.items[i].map.id = call.objs[i].attrs.id

SerializedTwoDifferentPosts ==
    /\ Finished("serialize_many")
    /\ Len(call.objs) = 2
    /\ call.objs[1] # call.objs[2]
    /\ result.value.items[1].map.slug = call.objs[1].attrs.slug
    /\ result.value.items[2].map.slug = call.objs[2].attrs.slug

\* The position in M of the first key that is no eligible field, 0 if none.
FirstInvalidKey ==
    LET eligible == SeqToSet(collect_field_names(call.model))
        invalid == {i \in 1..Len(call.data.keys) : call.data.keys[i] \notin eligible}
    IN IF invalid = {} THEN 0
       ELSE CHOOSE i \in invalid : \A j \in invalid : i <= j

\* C17: a strict from_dict stops at the first key of M that is no eligible
\* field: the keys before it have been assigned onto the object, that key
\* and the keys after it have not.
StrictFromDictStopsAtFirstInvalidKey ==
    (Finished("from_dict") /\ call.strict /\ FirstInvalidKey > 0) =>
        /\ result.raised
        /\ result.exc.cls = "InvalidFieldError"
        /\ \A j \in 1..(FirstInvalidKey - 1) :
              target.attrs[call.data.keys[j]] = call.data.map[call.data.keys[j]]
        /\ \A j \in FirstInvalidKey..Len(call.data.keys) :
              LET k == call.data.keys[j]
              IN IF k \in DOMAIN call.model.attrs
                 THEN target.attrs[k] = call.model.attrs[k]
                 ELSE k \notin DOMAIN target.attrs

\* C19: to_dict(O, E) changes no field value of O and does not fail over E:
\* names of E that are no eligible field of O are ignored, and the result is
\* to_dict(O) without exactly the keys named in E.
ToDictLeavesObjectAndIgnoresUnknown ==
    Finished("to_dict") =>
        LET full == to_dict(call.model, None)
            named == IF call.exclude = None THEN {}
                     ELSE SeqToSet(call.exclude.items)
        IN /\ target = call.model
           /\ ~result.raised
           /\ result.value.py = "dict"
           /\ result.value.keys = SelectSeq(full.keys, LAMBDA k : k \notin named)
           /\ DOMAIN result.value.map = SeqToSet(full.keys) \ named
           /\ \A k \in DOMAIN result.value.map : result.value.map[k] = full.map[k]

ToDictWithUnknownThenKnownName ==
    /\ Finished("to_dict")
    /\ call.model.cls = "BlogPost"
    /\ call.exclude = List(<<"lmao", "slug">>)
    /\ result.value.keys = <<"content", "id", "published_on", "title">>
    /\ target = call.model

=============================================================================
